---- MODULE Spec2Model ----
(***************************************************************************)
(* Client-side state stores of the voice-cloning front end:                *)
(*   - the voice store  (useVoiceStore: fetchVoices, selectVoice,          *)
(*     deleteVoice, cloneVoice),                                           *)
(*   - the generation store (useTTSStore: generateSpeech, clearHistory,    *)
(*     persisted under 'tts-store').                                       *)
(* Every async store operation is split at its await: the part before the  *)
(* await runs as one step, the remote service answers in a step of its own *)
(* and the continuation (try-body or catch) runs as one step when the      *)
(* response is delivered.  Responses are delivered in any order.           *)
(***************************************************************************)
EXTENDS Integers, Sequences, FiniteSets, Bags, TLC

VARIABLES
    voices,         \* useVoiceStore.voices: sequence of Voice
    selectedVoice,  \* useVoiceStore.selectedVoice: Voice or NoVoice
    isLoading,      \* useVoiceStore.isLoading
    error,          \* useVoiceStore.error: message or NULL
    calls,          \* voice-store gateway calls in flight: a bag of calls
    ops,            \* number of voice-store gateway calls issued so far
    srvVoices,      \* the remote service's voice list
    nextId,         \* the next voice id the remote service assigns
    lastOp,         \* the handler step taken last: operation, promise outcome, toast
    isGenerating,   \* useTTSStore.isGenerating
    currentAudio,   \* useTTSStore.currentAudio: TTSResponse or NoAudio
    history,        \* useTTSStore.history: sequence of TTSResponse
    persisted,      \* localStorage['tts-store'].state.history
    gens,           \* generateSpeech calls in flight: a bag of calls
    nextGen,        \* generated_at stamp of the next response the service produces
    overlaps,       \* how many generateSpeech calls were started while another was in flight
    log,            \* history variable: every response stored since the history was
                    \* last emptied (or restored by a reload), newest first, uncapped
    cleared,        \* history variable: clearHistory ran and no generateSpeech was called since
    settings,       \* useSettingsStore.settings: temperature and speed in tenths, language
    languages,      \* useSettingsStore.languages: sequence of Language
    persistedSettings, \* localStorage['settings-store'].state.settings
    langCalls,      \* getLanguages calls in flight: a bag of calls
    argError,       \* the failure value handed to handleAPIError
    resMessage,     \* what handleAPIError returned for it (NULL: not called yet)
    argFile,        \* the File handed to validateAudioFile
    resValidation,  \* what validateAudioFile returned for it
    route,          \* the page the router shows: "home", "clone" or "tts"
    audioFiles,     \* VoiceClonePage: the staged AudioFiles
    voiceName,      \* VoiceClonePage: the name field
    voiceDescription, \* VoiceClonePage: the description field
    dropping,       \* VoiceClonePage: onDrop calls that have built their newFiles
                    \* and have not yet appended them: a bag of sequences
    objectUrls,     \* the preview object URLs created and not revoked
    nextFile,       \* the number the next dropped file gets
    text            \* TTSPage: the text field

voiceVars == <<voices, selectedVoice, isLoading, error, calls, ops, srvVoices, nextId>>
ttsVars == <<isGenerating, currentAudio, history, persisted, gens, nextGen, overlaps, log, cleared>>
settingsVars == <<settings, languages, persistedSettings, langCalls>>
utilVars == <<argError, resMessage, argFile, resValidation>>
pageVars == <<route, audioFiles, voiceName, voiceDescription, dropping, objectUrls,
              nextFile, text>>
extVars == <<settingsVars, utilVars, pageVars>>
notSettings == <<voiceVars, ttsVars, utilVars, pageVars>>
vars == <<voiceVars, ttsVars, extVars, lastOp>>

(***************************************************************************)
(* Bounds of the model.                                                    *)
(***************************************************************************)
MaxOps == 3          \* voice-store gateway calls issued in a run
MaxVoiceIds == 2     \* voice ids the remote service hands out in a run
MaxGen == 22         \* responses the remote service generates in a run
MaxOverlap == 2      \* generateSpeech calls issued while another is in flight
MaxLangCalls == 2    \* getLanguages calls in flight at a time
MaxPageLoad == 3     \* files dropped and requests issued in a run of the pages
MaxStoreLoad == 2    \* requests the three stores have issued in a run, or have in flight
MaxIntake == 3       \* drops made and clone requests issued in a run of the intake
MaxCloneLoad == 5    \* files dropped and requests issued in a run of the voice-clone page

(***************************************************************************)
(* Values.                                                                 *)
(***************************************************************************)
NULL == "<null>"
Absent == "<undefined>"

\* A Voice: id, name, description, status and sample_count.  created_at and
\* the optional language, duration and preview_url are carried along by the
\* store without being read and are left out.  NoVoice stands for null.
NoVoice == [id |-> 0, name |-> "", description |-> "", status |-> "none", sample_count |-> 0]

\* the voice the remote service knows when the application starts
InitialVoice == [id |-> 1, name |-> "Test Voice 1",
                 description |-> "A test voice for unit testing",
                 status |-> "ready", sample_count |-> 3]

CloneRequests ==
    { [name |-> "X", description |-> "d", files |-> <<"f1", "f2">>] }

NoRequest == [name |-> "", description |-> "", files |-> << >>]

\* A failure value as axios rejects with it: the response body's detail and
\* message fields and the error's own message, each a string or Absent.
NoFailure == [detail |-> Absent, bodyMessage |-> Absent, message |-> Absent]
NotFound == [detail |-> "Voice not found", bodyMessage |-> Absent,
             message |-> "Request failed with status code 404"]
Timeout == [detail |-> Absent, bodyMessage |-> Absent,
            message |-> "timeout of 60000ms exceeded"]
ServerError == [detail |-> Absent, bodyMessage |-> "Internal Server Error",
                message |-> "Request failed with status code 500"]
Failures == {Timeout, ServerError}

\* JavaScript truthiness of an optional string field
Truthy(s) == s # Absent /\ s # NULL /\ s # ""

\* faulty variant of handleAPIError: the body's message is looked at first
handleAPIErrorMessageFirst(e) ==
    IF Truthy(e.bodyMessage) THEN e.bodyMessage
    ELSE IF Truthy(e.detail) THEN e.detail
    ELSE IF Truthy(e.message) THEN e.message
    ELSE "Ein unbekannter Fehler ist aufgetreten"

handleAPIError(e) ==
    IF Truthy(e.detail) THEN e.detail
    ELSE IF Truthy(e.bodyMessage) THEN e.bodyMessage
    ELSE IF Truthy(e.message) THEN e.message
    ELSE "Ein unbekannter Fehler ist aufgetreten"

NoToast == [kind |-> "none", text |-> << >>]
ToastError(prefix, msg) == [kind |-> "error", text |-> <<prefix, msg>>]
ToastSuccess(msg) == [kind |-> "success", text |-> <<msg>>]

(***************************************************************************)
(* Gateway calls of the voice store.                                       *)
(***************************************************************************)
\* origin tells who awaits the call: the store's caller ("store"), the mounted
\* VoiceClonePage ("page"), or a VoiceClonePage unmounted since ("gone").
Idle == [op |-> "idle", phase |-> "none", voiceId |-> 0, request |-> NoRequest,
         snapshot |-> << >>, payload |-> << >>, voice_id |-> 0, err |-> NoFailure,
         origin |-> "store"]

InFlight == BagToSet(calls)
\* the gateway call c is issued
Issue(c) ==
    /\ ops < MaxOps
    /\ ops' = ops + 1
    /\ calls' = calls (+) SetToBag({c})
\* the call c becomes d (the service answered it)
Answer(c, d) ==
    /\ calls' = (calls (-) SetToBag({c})) (+) SetToBag({d})
    /\ ops' = ops
\* the awaited call c is delivered to its continuation
Settle(c) ==
    /\ calls' = calls (-) SetToBag({c})
    /\ ops' = ops

Ids(vs) == {vs[i].id : i \in 1 .. Len(vs)}

\* A TTSResponse: generated_at identifies the response of one generation
\* (audio_url, filename and duration are determined with it); NoAudio is null.
\* A TTSRequest is its text and voice_id (language, speed and temperature are
\* passed through to the service).
NoAudio == [generated_at |-> 0, text |-> "", voice_id |-> 0]
TTSRequests == { [text |-> "Hallo Welt", voice_id |-> 1] }

\* a generateSpeech call in flight: sent, or answered with its response;
\* afterClear marks the first call made after a clearHistory
NoGen == [phase |-> "none", request |-> [text |-> "", voice_id |-> 0],
          response |-> NoAudio, afterClear |-> FALSE]

\* what the last step was: the operation, how its promise settled, the call
\* that was delivered, the error thrown to the caller and the toast raised
Step(op, outcome, call, thrown, toast) ==
    [op |-> op, outcome |-> outcome, call |-> call, gen |-> NoGen,
     thrown |-> thrown, toast |-> toast]
ServerStep == Step("server", "none", Idle, NoFailure, NoToast)
GenStep(op, outcome, g, thrown, toast) ==
    [op |-> op, outcome |-> outcome, call |-> Idle, gen |-> g,
     thrown |-> thrown, toast |-> toast]


(***************************************************************************)
(* useVoiceStore.                                                          *)
(***************************************************************************)
\* set({ isLoading: true, error: null })
\* faulty variant of SetLoading: the list is emptied before the request is sent
SetLoadingEmptiesList ==
    /\ isLoading' = TRUE
    /\ error' = NULL
    /\ voices' = << >>
    /\ UNCHANGED selectedVoice

SetLoading ==
    /\ isLoading' = TRUE
    /\ error' = NULL
    /\ UNCHANGED <<voices, selectedVoice>>

\* faulty variant of SetFetched: merges the payload into the list
SetFetchedMerged(payload) ==
    /\ voices' = payload \o SelectSeq(voices, LAMBDA v : v.id \notin Ids(payload))
    /\ isLoading' = FALSE
    /\ UNCHANGED <<selectedVoice, error>>

\* set({ voices, isLoading: false })
SetFetched(payload) ==
    /\ voices' = payload
    /\ isLoading' = FALSE
    /\ UNCHANGED <<selectedVoice, error>>

\* faulty variants of SetFailed: isLoading is left alone; the list is dropped
SetFailedKeepLoading(errorMessage) ==
    /\ error' = errorMessage
    /\ UNCHANGED <<voices, selectedVoice, isLoading>>

SetFailedDropList(errorMessage) ==
    /\ error' = errorMessage
    /\ isLoading' = FALSE
    /\ voices' = << >>
    /\ UNCHANGED selectedVoice

\* faulty variant of SetFailed: the message is not recorded
SetFailedUnrecorded(errorMessage) ==
    /\ isLoading' = FALSE
    /\ UNCHANGED <<voices, selectedVoice, error>>

\* set({ error: errorMessage, isLoading: false })
SetFailed(errorMessage) ==
    /\ error' = errorMessage
    /\ isLoading' = FALSE
    /\ UNCHANGED <<voices, selectedVoice>>

\* voices.filter(v => v.id !== voiceId)
WithoutVoice(vs, voiceId) == SelectSeq(vs, LAMBDA v : v.id # voiceId)

\* the Voice cloneVoice builds from the response and the request
NewVoice(voice_id, request) ==
    [id |-> voice_id, name |-> request.name, description |-> request.description,
     status |-> "processing", sample_count |-> Len(request.files)]

\* faulty variant of SetCloned: the new voice is put last
SetClonedAppended(newVoice) ==
    /\ voices' = Append(voices, newVoice)
    /\ isLoading' = FALSE
    /\ UNCHANGED <<selectedVoice, error>>

\* set({ voices: [newVoice, ...voices], isLoading: false })
SetCloned(newVoice) ==
    /\ voices' = <<newVoice>> \o voices
    /\ isLoading' = FALSE
    /\ UNCHANGED <<selectedVoice, error>>

fetchVoices ==
    /\ SetLoading
    /\ Issue([Idle EXCEPT !.op = "fetchVoices", !.phase = "sent"])
    /\ lastOp' = Step("fetchVoices", "pending", Idle, NoFailure, NoToast)
    /\ UNCHANGED <<srvVoices, nextId, ttsVars, extVars>>

fetchVoicesOk(c) ==
    /\ c.op = "fetchVoices" /\ c.phase = "ok"
    /\ SetFetched(c.payload)
    /\ Settle(c)
    /\ lastOp' = Step("fetchVoices", "resolved", c, NoFailure, NoToast)
    /\ UNCHANGED <<srvVoices, nextId, ttsVars, extVars>>

fetchVoicesFail(c) ==
    /\ c.op = "fetchVoices" /\ c.phase = "fail"
    /\ LET errorMessage == handleAPIError(c.err)
       IN /\ SetFailed(errorMessage)
          /\ lastOp' = Step("fetchVoices", "resolved", c, NoFailure,
                            ToastError("Fehler beim Laden der Stimmen: ", errorMessage))
    /\ Settle(c)
    /\ UNCHANGED <<srvVoices, nextId, ttsVars, extVars>>

selectVoice(voice) ==
    /\ selectedVoice' = voice
    /\ lastOp' = Step("selectVoice", "returned", Idle, NoFailure, NoToast)
    /\ UNCHANGED <<voices, isLoading, error, calls, ops, srvVoices, nextId, ttsVars, extVars>>

deleteVoice(voiceId) ==
    /\ Issue([Idle EXCEPT !.op = "deleteVoice", !.phase = "sent",
                          !.voiceId = voiceId, !.snapshot = voices])
    /\ lastOp' = Step("deleteVoice", "pending", Idle, NoFailure, NoToast)
    /\ UNCHANGED <<voices, selectedVoice, isLoading, error, srvVoices, nextId, ttsVars, extVars>>

\* faulty variant of ClearSelection: the selection is kept
ClearSelectionNever(voiceId) == selectedVoice' = selectedVoice

\* const { selectedVoice } = get()
\* if (selectedVoice?.id === voiceId) set({ selectedVoice: null })
ClearSelection(voiceId) ==
    selectedVoice' = IF selectedVoice # NoVoice /\ selectedVoice.id = voiceId
                     THEN NoVoice ELSE selectedVoice

deleteVoiceOk(c) ==
    /\ c.op = "deleteVoice" /\ c.phase = "ok"
    /\ LET updatedVoices == WithoutVoice(c.snapshot, c.voiceId)
       IN voices' = updatedVoices
    /\ ClearSelection(c.voiceId)
    /\ Settle(c)
    /\ lastOp' = Step("deleteVoice", "resolved", c, NoFailure,
                      ToastSuccess("Stimme erfolgreich geloescht"))
    /\ UNCHANGED <<isLoading, error, srvVoices, nextId, ttsVars, extVars>>

\* faulty variant of DeleteFailed: records the error as the other catch blocks do
DeleteFailedRecorded(errorMessage) == SetFailed(errorMessage)

\* the catch block of deleteVoice: it calls no set()
DeleteFailed(errorMessage) == UNCHANGED <<voices, selectedVoice, isLoading, error>>

deleteVoiceFail(c) ==
    /\ c.op = "deleteVoice" /\ c.phase = "fail"
    /\ LET errorMessage == handleAPIError(c.err)
       IN /\ DeleteFailed(errorMessage)
          /\ lastOp' = Step("deleteVoice", "rejected", c, c.err,
                            ToastError("Fehler beim Loeschen: ", errorMessage))
    /\ Settle(c)
    /\ UNCHANGED <<srvVoices, nextId, ttsVars, extVars>>

cloneVoice(request) ==
    /\ SetLoading
    /\ Issue([Idle EXCEPT !.op = "cloneVoice", !.phase = "sent", !.request = request])
    /\ lastOp' = Step("cloneVoice", "pending", Idle, NoFailure, NoToast)
    /\ UNCHANGED <<srvVoices, nextId, ttsVars, extVars>>

cloneVoiceOk(c) ==
    /\ c.op = "cloneVoice" /\ c.phase = "ok"
    /\ SetCloned(NewVoice(c.voice_id, c.request))
    /\ Settle(c)
    /\ lastOp' = Step("cloneVoice", "resolved", c, NoFailure,
                      ToastSuccess("Voice Cloning gestartet"))
    /\ UNCHANGED <<srvVoices, nextId, ttsVars, extVars>>

cloneVoiceFail(c) ==
    /\ c.op = "cloneVoice" /\ c.phase = "fail"
    /\ LET errorMessage == handleAPIError(c.err)
       IN /\ SetFailed(errorMessage)
          /\ lastOp' = Step("cloneVoice", "rejected", c, c.err,
                            ToastError("Fehler beim Voice Cloning: ", errorMessage))
    /\ Settle(c)
    /\ UNCHANGED <<srvVoices, nextId, ttsVars, extVars>>

(***************************************************************************)
(* The remote service, as far as the voice store sees it (section 6 of the *)
(* specification): it answers each request once, with a payload taken from *)
(* its own state at that moment, or the request fails in transport.        *)
(***************************************************************************)
ServerGetVoices(c) ==
    /\ c.op = "fetchVoices" /\ c.phase = "sent"
    /\ Answer(c, [c EXCEPT !.phase = "ok", !.payload = srvVoices])
    /\ lastOp' = ServerStep
    /\ UNCHANGED <<voices, selectedVoice, isLoading, error, srvVoices, nextId, ttsVars, extVars>>

ServerDeleteVoice(c) ==
    /\ c.op = "deleteVoice" /\ c.phase = "sent"
    /\ IF c.voiceId \in Ids(srvVoices)
       THEN /\ srvVoices' = WithoutVoice(srvVoices, c.voiceId)
            /\ Answer(c, [c EXCEPT !.phase = "ok"])
       ELSE /\ srvVoices' = srvVoices
            /\ Answer(c, [c EXCEPT !.phase = "fail", !.err = NotFound])
    /\ lastOp' = ServerStep
    /\ UNCHANGED <<voices, selectedVoice, isLoading, error, nextId, ttsVars, extVars>>

ServerCloneVoice(c) ==
    /\ c.op = "cloneVoice" /\ c.phase = "sent"
    /\ nextId <= MaxVoiceIds
    /\ srvVoices' = <<NewVoice(nextId, c.request)>> \o srvVoices
    /\ nextId' = nextId + 1
    /\ Answer(c, [c EXCEPT !.phase = "ok", !.voice_id = nextId])
    /\ lastOp' = ServerStep
    /\ UNCHANGED <<voices, selectedVoice, isLoading, error, ttsVars, extVars>>

\* a cloned voice finishes processing on the service
ServerProgress(i, status) ==
    /\ i \in 1 .. Len(srvVoices)
    /\ srvVoices[i].status = "processing"
    /\ srvVoices' = [srvVoices EXCEPT ![i].status = status]
    /\ lastOp' = ServerStep
    /\ UNCHANGED <<voices, selectedVoice, isLoading, error, calls, ops, nextId, ttsVars, extVars>>

\* timeout or connection failure of any request
TransportFail(c, e) ==
    /\ c.phase = "sent"
    /\ Answer(c, [c EXCEPT !.phase = "fail", !.err = e])
    /\ lastOp' = ServerStep
    /\ UNCHANGED <<voices, selectedVoice, isLoading, error, srvVoices, nextId, ttsVars, extVars>>

InitVoice ==
    /\ voices = << >>
    /\ selectedVoice = NoVoice
    /\ isLoading = FALSE
    /\ error = NULL
    /\ calls = EmptyBag
    /\ ops = 0
    /\ srvVoices = <<InitialVoice>>
    /\ nextId = 2

(***************************************************************************)
(* useTTSStore, persisted under 'tts-store'.                               *)
(***************************************************************************)
KeepPrevious == 19    \* history.slice(0, 19)
PersistCount == 10    \* state.history.slice(0, 10)

Min(a, b) == IF a < b THEN a ELSE b

\* Array.prototype.slice(0, end)
SliceFrom0(seq, end) == SubSeq(seq, 1, Min(end, Len(seq)))

\* faulty variant of Partialize: keeps the last 10 entries
PartializeTail(h) == SubSeq(h, Len(h) - Min(PersistCount, Len(h)) + 1, Len(h))

\* partialize: (state) => ({ history: state.history.slice(0, 10) })
Partialize(h) == SliceFrom0(h, PersistCount)

\* faulty variant of UpdatedHistory: no truncation
UpdatedHistoryUncapped(response, h) == <<response>> \o h

\* faulty variant of UpdatedHistory: the response is put last
UpdatedHistoryAppended(response, h) == SliceFrom0(h, KeepPrevious) \o <<response>>

\* [response, ...history.slice(0, 19)]
UpdatedHistory(response, h) == <<response>> \o SliceFrom0(h, KeepPrevious)

\* the persist middleware writes partialize(state) after every set()
Persist == persisted' = Partialize(history')

GenCall(request) ==
    [phase |-> "sent", request |-> request, response |-> NoAudio, afterClear |-> cleared]

generateSpeech(request) ==
    /\ gens = EmptyBag \/ overlaps < MaxOverlap
    /\ isGenerating' = TRUE
    /\ UNCHANGED <<currentAudio, history>>
    /\ Persist
    /\ gens' = gens (+) SetToBag({GenCall(request)})
    /\ overlaps' = IF gens = EmptyBag THEN overlaps ELSE overlaps + 1
    /\ cleared' = FALSE
    /\ lastOp' = GenStep("generateSpeech", "pending", NoGen, NoFailure, NoToast)
    /\ UNCHANGED <<nextGen, log, voiceVars, extVars>>

generateSpeechOk(g) ==
    /\ g.phase = "ok"
    /\ gens' = gens (-) SetToBag({g})
    /\ currentAudio' = g.response
    /\ history' = UpdatedHistory(g.response, history)
    /\ isGenerating' = FALSE
    /\ Persist
    /\ log' = <<g.response>> \o log
    /\ lastOp' = GenStep("generateSpeech", "resolved", g, NoFailure,
                         ToastSuccess("Audio erfolgreich generiert!"))
    /\ UNCHANGED <<nextGen, overlaps, cleared, voiceVars, extVars>>

\* faulty variant of SetGenerationFailed: the catch also drops the current audio
SetGenerationFailedDropsAudio ==
    /\ isGenerating' = FALSE
    /\ currentAudio' = NoAudio
    /\ UNCHANGED history

\* faulty variant of SetGenerationFailed: the catch leaves the flag alone
SetGenerationFailedKeepsFlag == UNCHANGED <<isGenerating, currentAudio, history>>

\* the catch block of generateSpeech: set({ isGenerating: false })
SetGenerationFailed ==
    /\ isGenerating' = FALSE
    /\ UNCHANGED <<currentAudio, history>>

generateSpeechFail(g, e) ==
    /\ g.phase = "sent"
    /\ gens' = gens (-) SetToBag({g})
    /\ SetGenerationFailed
    /\ Persist
    /\ lastOp' = GenStep("generateSpeech", "rejected", g, e,
                         ToastError("Fehler bei der Audio-Generierung: ", handleAPIError(e)))
    /\ UNCHANGED <<nextGen, overlaps, log, cleared, voiceVars, extVars>>

\* the remote service synthesises the audio and stamps the response
ServerGenerate(g) ==
    /\ g.phase = "sent"
    /\ nextGen <= MaxGen
    /\ gens' = (gens (-) SetToBag({g})) (+)
               SetToBag({[g EXCEPT !.phase = "ok",
                                   !.response = [generated_at |-> nextGen,
                                                 text |-> g.request.text,
                                                 voice_id |-> g.request.voice_id]]})
    /\ nextGen' = nextGen + 1
    /\ lastOp' = ServerStep
    /\ UNCHANGED <<isGenerating, currentAudio, history, persisted, overlaps, log, cleared,
                   voiceVars, extVars>>

\* the calls in flight, none of them any longer the first call after a clear
\* (book-keeping of the afterClear mark only)
Unmark(b) ==
    LET S == BagToSet(b)
        U(g) == [g EXCEPT !.afterClear = FALSE]
        M(g) == [g EXCEPT !.afterClear = TRUE]
        Copies(g) == IF g \in S THEN b[g] ELSE 0
    IN [t \in {U(g) : g \in S} |-> Copies(t) + Copies(M(t))]

\* faulty variant of Cleared: the history is kept
ClearedOnlyCurrent ==
    /\ currentAudio' = NoAudio
    /\ UNCHANGED history

\* faulty variant of Cleared: the current audio is kept
ClearedOnlyHistory ==
    /\ history' = << >>
    /\ UNCHANGED currentAudio

\* set({ history: [], currentAudio: null })
Cleared ==
    /\ history' = << >>
    /\ currentAudio' = NoAudio

clearHistory ==
    /\ Cleared
    /\ Persist
    /\ log' = << >>
    /\ cleared' = TRUE
    /\ gens' = Unmark(gens)
    /\ lastOp' = GenStep("clearHistory", "returned", NoGen, NoFailure,
                         ToastSuccess("Verlauf geloescht"))
    /\ UNCHANGED <<isGenerating, nextGen, overlaps, voiceVars, extVars>>

\* the page is loaded again: the store is created anew and the persist
\* middleware merges the stored { history } into its initial state.  Calls in
\* flight go away with the page; a response the service has stamped is
\* delivered first (losing it is, to the store, a request never answered).
Reload ==
    /\ \A g \in BagToSet(gens) : g.phase = "sent"
    /\ isGenerating' = FALSE
    /\ currentAudio' = NoAudio
    /\ history' = persisted
    /\ Persist
    /\ gens' = EmptyBag
    /\ log' = persisted
    /\ cleared' = FALSE
    /\ lastOp' = GenStep("reload", "none", NoGen, NoFailure, NoToast)
    /\ UNCHANGED <<nextGen, overlaps, voiceVars, extVars>>

InitTTS ==
    /\ isGenerating = FALSE
    /\ currentAudio = NoAudio
    /\ history = << >>
    /\ persisted = << >>
    /\ gens = EmptyBag
    /\ nextGen = 1
    /\ overlaps = 0
    /\ log = << >>
    /\ cleared = FALSE

(***************************************************************************)
(* useSettingsStore, persisted under 'settings-store'.  temperature and    *)
(* speed are in tenths (0.7 is 7, 1.0 is 10).                              *)
(***************************************************************************)
defaultSettings == [temperature |-> 7, speed |-> 10, language |-> "de"]

Language(code, name) == [code |-> code, name |-> name]

fallbackLanguages ==
    << Language("de", "Deutsch"), Language("en", "English"),
       Language("es", "Espanol"), Language("fr", "Francais"),
       Language("it", "Italiano"), Language("pt", "Portugues") >>

\* the language lists the remote service answers with
ServerLanguageLists ==
    { fallbackLanguages,
      << Language("en", "English"), Language("de", "Deutsch") >> }

\* the values the range inputs of the TTS page produce, in tenths:
\* min="0.1" max="1" step="0.1" (temperature), min="0.5" max="2" step="0.1" (speed)
TemperatureRange == 1 .. 10

\* faulty variant of SpeedRange: the control goes up to 2.1
SpeedRangeWide == 5 .. 21

SpeedRange == 5 .. 20

\* the partial settings updateSettings is called with: one field, as the
\* controls of the TTS page set it, or temperature and speed at once
SettingsPartials ==
    {[temperature |-> t] : t \in TemperatureRange}
        \cup {[speed |-> sp] : sp \in SpeedRange}
        \cup {[language |-> l] : l \in {"de", "en"}}
        \cup {[temperature |-> 10, speed |-> 5]}

\* faulty variant of Spread: { ...newSettings, ...settings }
SpreadReversed(base, over) ==
    [k \in DOMAIN base \cup DOMAIN over |-> IF k \in DOMAIN base THEN base[k] ELSE over[k]]

\* { ...settings, ...newSettings }
Spread(base, over) ==
    [k \in DOMAIN base \cup DOMAIN over |-> IF k \in DOMAIN over THEN over[k] ELSE base[k]]

\* partialize: (state) => ({ settings: state.settings }), written after every set()
PersistSettings == persistedSettings' = settings'

\* the step of updateSettings, with the partial settings it was called with
SettingsStep(newSettings) ==
    [op |-> "updateSettings", outcome |-> "returned", call |-> Idle, gen |-> NoGen,
     thrown |-> NoFailure, toast |-> NoToast, partial |-> newSettings]

updateSettings(newSettings) ==
    /\ LET updatedSettings == Spread(settings, newSettings)
       IN settings' = updatedSettings
    /\ PersistSettings
    /\ lastOp' = SettingsStep(newSettings)
    /\ UNCHANGED <<languages, langCalls, notSettings>>

fetchLanguages ==
    /\ BagCardinality(langCalls) < MaxLangCalls
    /\ langCalls' = langCalls (+) SetToBag({[Idle EXCEPT !.op = "fetchLanguages",
                                                         !.phase = "sent"]})
    /\ lastOp' = Step("fetchLanguages", "pending", Idle, NoFailure, NoToast)
    /\ UNCHANGED <<settings, languages, persistedSettings, notSettings>>

\* faulty variant of SetLanguages: the new list is appended to the old one
SetLanguagesAppended(list) ==
    /\ languages' = languages \o list
    /\ UNCHANGED settings

\* set({ languages: ... })
SetLanguages(list) ==
    /\ languages' = list
    /\ UNCHANGED settings

fetchLanguagesOk(c) ==
    /\ c.op = "fetchLanguages" /\ c.phase = "ok"
    /\ SetLanguages(c.payload)
    /\ PersistSettings
    /\ langCalls' = langCalls (-) SetToBag({c})
    /\ lastOp' = Step("fetchLanguages", "resolved", c, NoFailure, NoToast)
    /\ UNCHANGED <<notSettings>>

\* the catch block: the message goes to console.error, the fallback list is set
fetchLanguagesFail(c) ==
    /\ c.op = "fetchLanguages" /\ c.phase = "fail"
    /\ SetLanguages(fallbackLanguages)
    /\ PersistSettings
    /\ langCalls' = langCalls (-) SetToBag({c})
    /\ lastOp' = Step("fetchLanguages", "resolved", c, NoFailure, NoToast)
    /\ UNCHANGED <<notSettings>>

\* the remote service answers GET /languages
ServerGetLanguages(c, list) ==
    /\ c.op = "fetchLanguages" /\ c.phase = "sent"
    /\ langCalls' = (langCalls (-) SetToBag({c})) (+)
                    SetToBag({[c EXCEPT !.phase = "ok", !.payload = list]})
    /\ lastOp' = ServerStep
    /\ UNCHANGED <<settings, languages, persistedSettings, notSettings>>

\* the request fails: no answer in time, or an error status
LanguagesTransportFail(c, e) ==
    /\ c.op = "fetchLanguages" /\ c.phase = "sent"
    /\ langCalls' = (langCalls (-) SetToBag({c})) (+)
                    SetToBag({[c EXCEPT !.phase = "fail", !.err = e]})
    /\ lastOp' = ServerStep
    /\ UNCHANGED <<settings, languages, persistedSettings, notSettings>>

\* the page is loaded again: the store is created anew and the persist
\* middleware merges the stored { settings } into its initial state; the
\* calls in flight go away with the page
ReloadSettings ==
    /\ settings' = persistedSettings
    /\ languages' = << >>
    /\ PersistSettings
    /\ langCalls' = EmptyBag
    /\ lastOp' = Step("reload", "none", Idle, NoFailure, NoToast)
    /\ UNCHANGED <<notSettings>>

InitSettings ==
    /\ settings = defaultSettings
    /\ languages = << >>
    /\ persistedSettings = defaultSettings
    /\ langCalls = EmptyBag

(***************************************************************************)
(* utils/api.ts: handleAPIError and validateAudioFile as functions of      *)
(* their argument.                                                         *)
(***************************************************************************)
\* the failure values handleAPIError is applied to: every field missing,
\* null, empty or a message
FailureValues ==
    [detail : {Absent, NULL, "", "Voice not found"},
     bodyMessage : {Absent, NULL, "", "Internal Server Error"},
     message : {Absent, "", "Network Error", "Request failed with status code 500"}]

validTypes == {"audio/wav", "audio/mp3", "audio/mpeg", "audio/ogg", "audio/webm"}
maxSize == 50 * 1024 * 1024

\* a File as validateAudioFile reads it: its MIME type and its size in bytes
NoFile == [type |-> "", size |-> 0]
Files ==
    [type : validTypes \cup {"", "audio/flac", "audio/x-wav", "video/mp4", "text/plain"},
     size : {0, 1, maxSize - 1, maxSize, maxSize + 1, 2 * maxSize}]

NotValidated == [valid |-> FALSE, error |-> NULL]
Valid == [valid |-> TRUE, error |-> Absent]
Invalid(reason) == [valid |-> FALSE, error |-> reason]
OnlyAudioAllowed == "Nur Audio-Dateien sind erlaubt (WAV, MP3, OGG, WebM)"
FileTooLarge == "Datei ist zu gross (max. 50MB)"

\* faulty variant of validateAudioFile: a file of exactly maxSize is too large
validateAudioFileInclusive(f) ==
    IF f.type \notin validTypes THEN Invalid(OnlyAudioAllowed)
    ELSE IF f.size >= maxSize THEN Invalid(FileTooLarge)
    ELSE Valid

validateAudioFile(f) ==
    IF f.type \notin validTypes THEN Invalid(OnlyAudioAllowed)
    ELSE IF f.size > maxSize THEN Invalid(FileTooLarge)
    ELSE Valid

CallHandleAPIError ==
    /\ resMessage' = handleAPIError(argError)
    /\ lastOp' = Step("handleAPIError", "returned", Idle, NoFailure, NoToast)
    /\ UNCHANGED <<argError, argFile, resValidation, voiceVars, ttsVars, settingsVars, pageVars>>

CallValidateAudioFile ==
    /\ resValidation' = validateAudioFile(argFile)
    /\ lastOp' = Step("validateAudioFile", "returned", Idle, NoFailure, NoToast)
    /\ UNCHANGED <<argError, resMessage, argFile, voiceVars, ttsVars, settingsVars, pageVars>>

InitUtils ==
    /\ argError = NoFailure
    /\ resMessage = NULL
    /\ argFile = NoFile
    /\ resValidation = NotValidated

(***************************************************************************)
(* VoiceClonePage and TTSPage: the component state and the handlers.  The  *)
(* router shows one page at a time; a page's state is created when it is   *)
(* mounted and discarded when it is unmounted.                             *)
(***************************************************************************)
Routes == {"home", "clone", "tts"}

\* what the user types into the name field and into the text field (the
\* description field is passed on as it is and stays empty here)
NameInputs == {"", " ", "X"}
TextInputs == {"", " ", " Hallo Welt "}

\* String.prototype.trim, on the strings above
Trim(str) ==
    CASE str = " " -> ""
      [] str = " Hallo Welt " -> "Hallo Welt"
      [] OTHER -> str

\* the Files the user drops: type and size as validateAudioFile reads them,
\* decodable tells whether getAudioDuration resolves (loadedmetadata) or
\* rejects (error) for the file
DroppedFiles ==
    { [type |-> "audio/wav", size |-> 1048576, decodable |-> TRUE],
      [type |-> "video/mp4", size |-> 1048576, decodable |-> TRUE],
      [type |-> "audio/mpeg", size |-> maxSize + 1, decodable |-> TRUE],
      [type |-> "audio/ogg", size |-> 1048576, decodable |-> FALSE] }

\* acceptedFiles of one drop
Drops == {<<f>> : f \in DroppedFiles} \cup {<<f, g>> : f, g \in DroppedFiles}

\* the AudioFile onDrop builds for the n-th dropped file: URL.createObjectURL
\* returns a new URL on every call, n stands for it (and for the random id)
AudioFile(n, f) == [id |-> n, file |-> f, preview |-> n]

\* faulty variant of Staged: the result of validateAudioFile is ignored
StagedUnvalidated(f) == f.decodable

\* the file passes validateAudioFile and getAudioDuration resolves for it
Staged(f) == validateAudioFile(f).valid /\ f.decodable

\* newFiles after the loop of onDrop over acceptedFiles, the first of which
\* is the n-th dropped file
RECURSIVE NewFiles(_, _)
NewFiles(acceptedFiles, n) ==
    IF acceptedFiles = << >> THEN << >>
    ELSE LET f == Head(acceptedFiles)
             rest == NewFiles(Tail(acceptedFiles), n + 1)
         IN IF Staged(f) THEN <<AudioFile(n, f)>> \o rest ELSE rest

\* the toast of the last file the loop of onDrop rejected
RECURSIVE DropToast(_)
DropToast(acceptedFiles) ==
    IF acceptedFiles = << >> THEN NoToast
    ELSE LET f == acceptedFiles[Len(acceptedFiles)]
             validation == validateAudioFile(f)
         IN IF ~validation.valid THEN ToastError("", validation.error)
            ELSE IF ~f.decodable THEN ToastError("Fehler beim Verarbeiten von ", "file.name")
            ELSE DropToast(SubSeq(acceptedFiles, 1, Len(acceptedFiles) - 1))

pageFrame == <<voiceVars, ttsVars, settingsVars, utilVars>>

\* the files dropped and the requests issued so far in a run of the pages
PageLoad == (nextFile - 1) + ops + (nextGen - 1) + BagCardinality(gens)

\* onDrop up to setAudioFiles: every file is validated and decoded and the
\* preview URLs of the accepted ones are created (the awaits of
\* getAudioDuration between the files are taken together)
onDrop(acceptedFiles) ==
    /\ route = "clone"
    /\ LET newFiles == NewFiles(acceptedFiles, nextFile)
       IN /\ dropping' = dropping (+) SetToBag({newFiles})
          /\ objectUrls' = objectUrls \cup {newFiles[i].preview : i \in 1 .. Len(newFiles)}
    /\ nextFile' = nextFile + Len(acceptedFiles)
    /\ lastOp' = Step("onDrop", "pending", Idle, NoFailure, DropToast(acceptedFiles))
    /\ UNCHANGED <<route, audioFiles, voiceName, voiceDescription, text, pageFrame>>

\* setAudioFiles(prev => [...prev, ...newFiles])
onDropDone(newFiles) ==
    /\ route = "clone"
    /\ dropping' = dropping (-) SetToBag({newFiles})
    /\ audioFiles' = audioFiles \o newFiles
    /\ lastOp' = Step("onDrop", "resolved", Idle, NoFailure, NoToast)
    /\ UNCHANGED <<route, voiceName, voiceDescription, objectUrls, nextFile, text, pageFrame>>

removeFile(id) ==
    /\ route = "clone"
    /\ \E i \in 1 .. Len(audioFiles) : audioFiles[i].id = id
    /\ objectUrls' = objectUrls \ {audioFiles[i].preview :
                                      i \in {j \in 1 .. Len(audioFiles) : audioFiles[j].id = id}}
    /\ audioFiles' = SelectSeq(audioFiles, LAMBDA f : f.id # id)
    /\ lastOp' = Step("removeFile", "returned", Idle, NoFailure, NoToast)
    /\ UNCHANGED <<route, voiceName, voiceDescription, dropping, nextFile, text, pageFrame>>

setVoiceName(value) ==
    /\ route = "clone"
    /\ voiceName' = value
    /\ lastOp' = Step("setVoiceName", "returned", Idle, NoFailure, NoToast)
    /\ UNCHANGED <<route, audioFiles, voiceDescription, dropping, objectUrls, nextFile, text,
                   pageFrame>>

\* faulty variant of Blank: the string is not trimmed
BlankUntrimmed(str) == str = ""

\* !str.trim()
Blank(str) == Trim(str) = ""

\* a handler returns after its validation failed: a toast and nothing else
Refused(handler, message) ==
    /\ lastOp' = Step(handler, "returned", Idle, NoFailure, ToastError("", message))
    /\ UNCHANGED <<pageVars, pageFrame>>

\* handleSubmit up to the await of cloneVoice, and cloneVoice up to its await
handleSubmit ==
    /\ route = "clone"
    /\ IF Blank(voiceName)
       THEN Refused("handleSubmit", "Bitte geben Sie einen Namen fuer die Stimme ein")
       ELSE IF Len(audioFiles) = 0
       THEN Refused("handleSubmit", "Bitte laden Sie mindestens eine Audio-Datei hoch")
       ELSE /\ SetLoading
            /\ Issue([Idle EXCEPT !.op = "cloneVoice", !.phase = "sent", !.origin = "page",
                                  !.request = [name |-> voiceName,
                                               description |-> voiceDescription,
                                               files |-> [i \in 1 .. Len(audioFiles)
                                                            |-> audioFiles[i].file]]])
            /\ lastOp' = Step("cloneVoice", "pending", Idle, NoFailure, NoToast)
            /\ UNCHANGED <<srvVoices, nextId, ttsVars, extVars>>

\* cloneVoice succeeds for the mounted page: the try body of cloneVoice, then
\* the rest of the try body of handleSubmit resets the form
handleSubmitOk(c) ==
    /\ c.op = "cloneVoice" /\ c.phase = "ok" /\ c.origin = "page"
    /\ SetCloned(NewVoice(c.voice_id, c.request))
    /\ Settle(c)
    /\ voiceName' = ""
    /\ voiceDescription' = ""
    /\ audioFiles' = << >>
    /\ lastOp' = Step("cloneVoice", "resolved", c, NoFailure,
                      ToastSuccess("Voice Cloning gestartet"))
    /\ UNCHANGED <<srvVoices, nextId, route, dropping, objectUrls, nextFile, text,
                   ttsVars, settingsVars, utilVars>>

\* the submit button:
\* disabled={isLoading || !voiceName.trim() || audioFiles.length === 0}
SubmitDisabled == isLoading \/ Blank(voiceName) \/ Len(audioFiles) = 0

\* a click on the submit button: onClick={handleSubmit}, unless disabled
clickSubmit ==
    /\ route = "clone"
    /\ ~SubmitDisabled
    /\ handleSubmit

setText(value) ==
    /\ route = "tts"
    /\ text' = value
    /\ lastOp' = Step("setText", "returned", Idle, NoFailure, NoToast)
    /\ UNCHANGED <<route, audioFiles, voiceName, voiceDescription, dropping, objectUrls,
                   nextFile, pageFrame>>

\* handleGenerate up to the await of generateSpeech, and generateSpeech up to
\* its await
handleGenerate ==
    /\ route = "tts"
    /\ IF Blank(text)
       THEN Refused("handleGenerate", "Bitte geben Sie einen Text ein")
       ELSE IF selectedVoice = NoVoice
       THEN Refused("handleGenerate", "Bitte waehlen Sie eine Stimme aus")
       ELSE /\ PageLoad < MaxPageLoad
            /\ generateSpeech([text |-> Trim(text), voice_id |-> selectedVoice.id])

\* faulty variant of GenerateDisabled: the control ignores isGenerating
GenerateDisabledIgnoresFlag == Blank(text) \/ selectedVoice = NoVoice

\* the generate button: disabled={isGenerating || !text.trim() || !selectedVoice}
GenerateDisabled == isGenerating \/ Blank(text) \/ selectedVoice = NoVoice

\* a click on the generate button: onClick={handleGenerate}, unless disabled
clickGenerate ==
    /\ route = "tts"
    /\ ~GenerateDisabled
    /\ handleGenerate

\* the calls in flight when the VoiceClonePage is unmounted: no mounted page
\* awaits them any longer
Unmounted(b) ==
    LET S == BagToSet(b)
        U(c) == [c EXCEPT !.origin = "store"]
        M(c) == [c EXCEPT !.origin = "page"]
        Copies(c) == IF c \in S THEN b[c] ELSE 0
    IN [t \in {U(c) : c \in S} |-> Copies(t) + Copies(M(t))]

\* the router shows another page: the page shown is unmounted and its state
\* discarded (no effect cleanup is registered), the new page starts from its
\* initial state
navigate(to) ==
    /\ to # route
    /\ route' = to
    /\ audioFiles' = << >>
    /\ voiceName' = ""
    /\ voiceDescription' = ""
    /\ dropping' = EmptyBag
    /\ text' = ""
    /\ calls' = Unmounted(calls)
    /\ lastOp' = Step("navigate", "none", Idle, NoFailure, NoToast)
    /\ UNCHANGED <<objectUrls, nextFile, voices, selectedVoice, isLoading, error, ops,
                   srvVoices, nextId, ttsVars, settingsVars, utilVars>>

\* the browser loads the application again on the page it shows: the three
\* stores are created anew (the generation store and the settings store from
\* their persisted parts), the page starts from its initial state, and the
\* document's requests in flight and object URLs go away with it
reloadPage ==
    /\ voices' = << >>
    /\ selectedVoice' = NoVoice
    /\ isLoading' = FALSE
    /\ error' = NULL
    /\ calls' = EmptyBag
    /\ isGenerating' = FALSE
    /\ currentAudio' = NoAudio
    /\ history' = persisted
    /\ Persist
    /\ gens' = EmptyBag
    /\ log' = persisted
    /\ cleared' = FALSE
    /\ settings' = persistedSettings
    /\ languages' = << >>
    /\ PersistSettings
    /\ langCalls' = EmptyBag
    /\ audioFiles' = << >>
    /\ voiceName' = ""
    /\ voiceDescription' = ""
    /\ dropping' = EmptyBag
    /\ objectUrls' = {}
    /\ text' = ""
    /\ lastOp' = Step("reload", "none", Idle, NoFailure, NoToast)
    /\ UNCHANGED <<route, ops, srvVoices, nextId, nextGen, overlaps, nextFile, utilVars>>

InitPages ==
    /\ route = "home"
    /\ audioFiles = << >>
    /\ voiceName = ""
    /\ voiceDescription = ""
    /\ dropping = EmptyBag
    /\ objectUrls = {}
    /\ nextFile = 1
    /\ text = ""

Init ==
    /\ InitVoice
    /\ InitTTS
    /\ InitSettings
    /\ InitUtils
    /\ InitPages
    /\ lastOp = Step("init", "none", Idle, NoFailure, NoToast)

NextVoice ==
    \/ fetchVoices
    \/ \E c \in InFlight : fetchVoicesOk(c)
    \/ \E c \in InFlight : fetchVoicesFail(c)
    \/ \E i \in 1 .. Len(voices) : selectVoice(voices[i])
    \/ selectVoice(NoVoice)
    \/ \E id \in 1 .. MaxVoiceIds : deleteVoice(id)
    \/ \E c \in InFlight : deleteVoiceOk(c)
    \/ \E c \in InFlight : deleteVoiceFail(c)
    \/ \E r \in CloneRequests : cloneVoice(r)
    \/ \E c \in InFlight : cloneVoiceOk(c)
    \/ \E c \in InFlight : cloneVoiceFail(c)
    \/ \E c \in InFlight : ServerGetVoices(c)
    \/ \E c \in InFlight : ServerDeleteVoice(c)
    \/ \E c \in InFlight : ServerCloneVoice(c)
    \/ \E i \in 1 .. MaxVoiceIds, st \in {"ready", "error"} : ServerProgress(i, st)
    \/ \E c \in InFlight, e \in Failures : TransportFail(c, e)

SpecVoice == Init /\ [][NextVoice]_vars

NextTTS ==
    \/ \E r \in TTSRequests : generateSpeech(r)
    \/ \E g \in BagToSet(gens) : generateSpeechOk(g)
    \/ \E g \in BagToSet(gens), e \in Failures : generateSpeechFail(g, e)
    \/ \E g \in BagToSet(gens) : ServerGenerate(g)
    \/ clearHistory
    \/ Reload

SpecTTS == Init /\ [][NextTTS]_vars

NextSettings ==
    \/ \E p \in SettingsPartials : updateSettings(p)
    \/ fetchLanguages
    \/ \E c \in BagToSet(langCalls) : fetchLanguagesOk(c)
    \/ \E c \in BagToSet(langCalls) : fetchLanguagesFail(c)
    \/ \E c \in BagToSet(langCalls), list \in ServerLanguageLists : ServerGetLanguages(c, list)
    \/ \E c \in BagToSet(langCalls), e \in Failures : LanguagesTransportFail(c, e)
    \/ ReloadSettings

SpecSettings == Init /\ [][NextSettings]_vars

\* the two functions applied to every argument of FailureValues and Files
InitArguments ==
    /\ InitVoice
    /\ InitTTS
    /\ InitSettings
    /\ InitPages
    /\ argError \in FailureValues
    /\ resMessage = NULL
    /\ argFile \in Files
    /\ resValidation = NotValidated
    /\ lastOp = Step("init", "none", Idle, NoFailure, NoToast)

NextUtils ==
    \/ CallHandleAPIError
    \/ CallValidateAudioFile

SpecUtils == InitArguments /\ [][NextUtils]_vars

\* the two pages with the store operations they call: the pages' mount
\* effects call fetchVoices
NextPages ==
    \/ \E to \in Routes : navigate(to)
    \/ \E d \in Drops : PageLoad + Len(d) <= MaxPageLoad /\ onDrop(d)
    \/ \E d \in BagToSet(dropping) : onDropDone(d)
    \/ \E i \in 1 .. Len(audioFiles) : removeFile(audioFiles[i].id)
    \/ \E v \in NameInputs : setVoiceName(v)
    \/ PageLoad < MaxPageLoad /\ handleSubmit
    \/ \E c \in InFlight : handleSubmitOk(c)
    \/ \E c \in InFlight : c.origin # "page" /\ cloneVoiceOk(c)
    \/ \E c \in InFlight : cloneVoiceFail(c)
    \/ \E v \in TextInputs : setText(v)
    \/ \E i \in 1 .. Len(voices) :
          route = "tts" /\ voices[i].status = "ready" /\ selectVoice(voices[i])
    \/ handleGenerate
    \/ \E g \in BagToSet(gens) : generateSpeechOk(g)
    \/ \E g \in BagToSet(gens), e \in Failures : generateSpeechFail(g, e)
    \/ \E g \in BagToSet(gens) : ServerGenerate(g)
    \/ route \in {"home", "tts"} /\ PageLoad < MaxPageLoad /\ fetchVoices
    \/ \E c \in InFlight : fetchVoicesOk(c)
    \/ \E c \in InFlight : fetchVoicesFail(c)
    \/ \E c \in InFlight : ServerGetVoices(c)
    \/ \E c \in InFlight : ServerCloneVoice(c)
    \/ \E c \in InFlight, e \in Failures : TransportFail(c, e)

SpecPages == Init /\ [][NextPages]_vars

\* useDropzone({ ..., maxFiles: 10 }): a drop of more files is rejected whole
maxFiles == 10

\* acceptedFiles of the drops made on the intake: one file, or as many as a
\* drop may hold, all of them files that validate and decode
IntakeDrops ==
    {[i \in 1 .. n |-> [type |-> "audio/wav", size |-> 1048576, decodable |-> TRUE]] :
        n \in {1, maxFiles}}

\* the drops made (of one file or of maxFiles files) and the clone requests
\* issued so far in a run of the intake
IntakeLoad == ((nextFile - 1) \div maxFiles) + ((nextFile - 1) % maxFiles) + ops

\* the intake of the voice-clone page: drops, removals of the last staged
\* file, the name field and the submission of the form
NextIntake ==
    \/ navigate("clone")
    \/ \E d \in IntakeDrops : IntakeLoad < MaxIntake /\ onDrop(d)
    \/ \E d \in BagToSet(dropping) : onDropDone(d)
    \/ audioFiles # << >> /\ removeFile(audioFiles[Len(audioFiles)].id)
    \/ \E v \in NameInputs : setVoiceName(v)
    \/ IntakeLoad < MaxIntake /\ handleSubmit
    \/ \E c \in InFlight : ServerCloneVoice(c)
    \/ \E c \in InFlight : handleSubmitOk(c)

SpecIntake == Init /\ [][NextIntake]_vars

\* the voice-clone page as the user drives it, next to the pages whose mount
\* effect fetches the voices: a file is dropped, a name is typed, the submit
\* button is clicked while it is enabled
NextClonePage ==
    \/ \E to \in Routes : navigate(to)
    \/ \E d \in IntakeDrops : Len(d) = 1 /\ PageLoad < MaxCloneLoad /\ onDrop(d)
    \/ \E d \in BagToSet(dropping) : onDropDone(d)
    \/ setVoiceName("X")
    \/ PageLoad < MaxCloneLoad /\ clickSubmit
    \/ \E c \in InFlight : ServerCloneVoice(c)
    \/ \E c \in InFlight : handleSubmitOk(c)
    \/ \E c \in InFlight : c.origin # "page" /\ cloneVoiceOk(c)
    \/ route \in {"home", "tts"} /\ PageLoad < MaxCloneLoad /\ fetchVoices
    \/ \E c \in InFlight : ServerGetVoices(c)
    \/ \E c \in InFlight : fetchVoicesOk(c)

SpecClonePage == Init /\ [][NextClonePage]_vars

\* the TTS page as the user drives it: the voices are fetched when it is
\* mounted, a ready voice is picked, text is typed, the generate button is
\* clicked while it is enabled; the application may be loaded again
NextTTSPage ==
    \/ \E to \in Routes : navigate(to)
    \/ route = "tts" /\ PageLoad < MaxPageLoad /\ fetchVoices
    \/ \E c \in InFlight : ServerGetVoices(c)
    \/ \E c \in InFlight : fetchVoicesOk(c)
    \/ \E v \in TextInputs : setText(v)
    \/ \E i \in 1 .. Len(voices) :
          route = "tts" /\ voices[i].status = "ready" /\ selectVoice(voices[i])
    \/ clickGenerate
    \/ \E g \in BagToSet(gens) : ServerGenerate(g)
    \/ \E g \in BagToSet(gens) : generateSpeechOk(g)
    \/ \E g \in BagToSet(gens), e \in Failures : generateSpeechFail(g, e)
    \/ reloadPage

SpecTTSPage == Init /\ [][NextTTSPage]_vars

\* the requests issued so far by the voice store and the generation store,
\* and those of the settings store in flight
StoreLoad == ops + (nextGen - 1) + BagCardinality(gens) + BagCardinality(langCalls)

\* the five operations that await a gateway call, of the three stores together
NextStores ==
    \/ StoreLoad < MaxStoreLoad /\ fetchVoices
    \/ \E c \in InFlight : fetchVoicesOk(c)
    \/ \E c \in InFlight : fetchVoicesFail(c)
    \/ \E id \in 1 .. MaxVoiceIds : StoreLoad < MaxStoreLoad /\ deleteVoice(id)
    \/ \E c \in InFlight : deleteVoiceOk(c)
    \/ \E c \in InFlight : deleteVoiceFail(c)
    \/ \E r \in CloneRequests : StoreLoad < MaxStoreLoad /\ cloneVoice(r)
    \/ \E c \in InFlight : cloneVoiceOk(c)
    \/ \E c \in InFlight : cloneVoiceFail(c)
    \/ \E c \in InFlight : ServerGetVoices(c)
    \/ \E c \in InFlight : ServerDeleteVoice(c)
    \/ \E c \in InFlight : ServerCloneVoice(c)
    \/ \E c \in InFlight, e \in Failures : TransportFail(c, e)
    \/ \E r \in TTSRequests : StoreLoad < MaxStoreLoad /\ generateSpeech(r)
    \/ \E g \in BagToSet(gens) : generateSpeechOk(g)
    \/ \E g \in BagToSet(gens), e \in Failures : generateSpeechFail(g, e)
    \/ \E g \in BagToSet(gens) : ServerGenerate(g)
    \/ StoreLoad < MaxStoreLoad /\ fetchLanguages
    \/ \E c \in BagToSet(langCalls) : fetchLanguagesOk(c)
    \/ \E c \in BagToSet(langCalls) : fetchLanguagesFail(c)
    \/ \E c \in BagToSet(langCalls), list \in ServerLanguageLists : ServerGetLanguages(c, list)
    \/ \E c \in BagToSet(langCalls), e \in Failures : LanguagesTransportFail(c, e)

SpecStores == Init /\ [][NextStores]_vars

\* the three operations that set a flag while they await their call:
\* fetchVoices and cloneVoice (isLoading), generateSpeech (isGenerating)
NextFlagged ==
    \/ StoreLoad < MaxStoreLoad /\ fetchVoices
    \/ \E c \in InFlight : fetchVoicesOk(c)
    \/ \E c \in InFlight : fetchVoicesFail(c)
    \/ \E r \in CloneRequests : StoreLoad < MaxStoreLoad /\ cloneVoice(r)
    \/ \E c \in InFlight : cloneVoiceOk(c)
    \/ \E c \in InFlight : cloneVoiceFail(c)
    \/ \E c \in InFlight : ServerGetVoices(c)
    \/ \E c \in InFlight : ServerCloneVoice(c)
    \/ \E c \in InFlight, e \in Failures : TransportFail(c, e)
    \/ \E r \in TTSRequests : StoreLoad < MaxStoreLoad /\ generateSpeech(r)
    \/ \E g \in BagToSet(gens) : generateSpeechOk(g)
    \/ \E g \in BagToSet(gens), e \in Failures : generateSpeechFail(g, e)
    \/ \E g \in BagToSet(gens) : ServerGenerate(g)

\* a gateway call of the voice store settles: the service answers it, or it
\* fails (an error status, a connection failure, or the timeout of 60 seconds)
VoiceCallSettles ==
    \/ \E c \in InFlight : ServerGetVoices(c)
    \/ \E c \in InFlight : ServerCloneVoice(c)
    \/ \E c \in InFlight, e \in Failures : TransportFail(c, e)

\* the promise of a settled call resumes the operation that awaits it: the
\* rest of its try body, or its catch block
VoiceCallResumes ==
    \/ \E c \in InFlight : fetchVoicesOk(c)
    \/ \E c \in InFlight : fetchVoicesFail(c)
    \/ \E c \in InFlight : cloneVoiceOk(c)
    \/ \E c \in InFlight : cloneVoiceFail(c)

\* the same for the generateSpeech calls (a failed request settles and
\* resumes the catch block in one step)
GenerationSettles == \E g \in BagToSet(gens) : ServerGenerate(g)

GenerationResumes ==
    \/ \E g \in BagToSet(gens) : generateSpeechOk(g)
    \/ \E g \in BagToSet(gens), e \in Failures : generateSpeechFail(g, e)

\* the three operations with every gateway call settling and every settled
\* promise resuming its operation
SpecFlaggedFair ==
    /\ Init /\ [][NextFlagged]_vars
    /\ WF_vars(VoiceCallSettles) /\ WF_vars(VoiceCallResumes)
    /\ WF_vars(GenerationSettles) /\ WF_vars(GenerationResumes)


(***************************************************************************)
(* Steps of the voice store, as the formulas below name them.              *)
(***************************************************************************)
\* the step just taken delivered the answer of a call of operation op whose
\* request had succeeded (phase "ok") or failed (phase "fail")
Delivered(op, phase) ==
    /\ lastOp.op = op
    /\ lastOp.outcome \in {"resolved", "rejected"}
    /\ lastOp.call.phase = phase

DeliveredNext(op, phase) ==
    /\ lastOp'.op = op
    /\ lastOp'.outcome \in {"resolved", "rejected"}
    /\ lastOp'.call.phase = phase

StoreUnchanged == UNCHANGED <<voices, selectedVoice, isLoading, error>>

(***************************************************************************)
(* C1: when deleteVoice(id) succeeds, the voice list loses exactly the     *)
(* entries with that id and every other entry that was in the list at that *)
(* moment stays, unchanged and in the same order, whatever other operations*)
(* started or completed while the delete request was in flight.            *)
(***************************************************************************)
C1_DeleteRemovesOnlyMatching ==
    [][DeliveredNext("deleteVoice", "ok")
         => voices' = SelectSeq(voices, LAMBDA v : v.id # lastOp'.call.voiceId)]_vars

(***************************************************************************)
(* C2: a successful fetchVoices response replaces the entire voice list:   *)
(* right after it is delivered the list equals its payload, also when      *)
(* several fetches overlap and are answered in another order than issued.  *)
(***************************************************************************)
C2_LastFetchWins ==
    Delivered("fetchVoices", "ok") => voices = lastOp.call.payload

\* a fetch was delivered while another fetch, answered by the service with a
\* different list, is still in flight, and other entries were in the list before
C2_Witness ==
    /\ Delivered("fetchVoices", "ok")
    /\ voices = lastOp.call.payload
    /\ voices # srvVoices
    /\ \E c \in InFlight : c.op = "fetchVoices" /\ c.phase = "ok" /\ c.payload # voices

(***************************************************************************)
(* C3: when cloneVoice(request) succeeds the list grows by exactly one     *)
(* entry, placed first: id from the response, status processing, name and  *)
(* description of the request, sample_count the number of files; the       *)
(* entries that were in the list follow it in their order.                 *)
(***************************************************************************)
C3_CloneSucceeds ==
    [][DeliveredNext("cloneVoice", "ok")
         => /\ Len(voices') = Len(voices) + 1
            /\ voices'[1] = [id |-> lastOp'.call.voice_id,
                             name |-> lastOp'.call.request.name,
                             description |-> lastOp'.call.request.description,
                             status |-> "processing",
                             sample_count |-> Len(lastOp'.call.request.files)]
            /\ \A i \in 1 .. Len(voices) : voices'[i + 1] = voices[i]]_vars

C3_Witness ==
    /\ Delivered("cloneVoice", "ok")
    /\ Len(voices) >= 2
    /\ voices[1].id = lastOp.call.voice_id
    /\ voices[1].sample_count = 2

(***************************************************************************)
(* C4: the in-memory history never holds more than 20 entries; it holds    *)
(* exactly min(N, 20) entries, where N counts the results stored since the *)
(* history was last emptied (a reload restarts the count at the restored   *)
(* entries), and they are the most recently stored results, newest first.  *)
(***************************************************************************)
C4_HistoryCapped ==
    /\ Len(history) <= 20
    /\ Len(history) = IF Len(log) < 20 THEN Len(log) ELSE 20
    /\ \A i \in 1 .. Len(history) : history[i] = log[i]

\* more than 20 results were stored without a clear and the oldest dropped out
C4_Witness ==
    /\ Len(log) > 20
    /\ Len(history) = 20
    /\ history[20] = log[20]
    /\ lastOp.op = "generateSpeech" /\ lastOp.outcome = "resolved"

(***************************************************************************)
(* C5: after every state change of the generation store the persisted      *)
(* 'tts-store' value holds exactly the first 10 entries of the in-memory   *)
(* history in the same order; after more than 10 stored results these are  *)
(* the 10 most recent, and a reload restores at most 10 entries.           *)
(***************************************************************************)
C5_PersistedFirstTen ==
    /\ Len(persisted) = (IF Len(history) < 10 THEN Len(history) ELSE 10)
    /\ \A i \in 1 .. Len(persisted) : persisted[i] = history[i]
    /\ Len(log) > 10 => persisted = SubSeq(log, 1, 10)
    /\ lastOp.op = "reload" => Len(history) <= 10 /\ history = persisted

\* more than 10 results are in the history and 10 are persisted, in a run in
\* which the history was emptied or restored by a reload before
C5_Witness ==
    /\ Len(history) > 10
    /\ Len(persisted) = 10
    /\ persisted = SubSeq(history, 1, 10)
    /\ Len(log) < nextGen - 1

(***************************************************************************)
(* C6: if clearHistory() is called and afterwards generateSpeech() is      *)
(* called and succeeds, then once that result is stored the history has    *)
(* length 1 and holds exactly the new result, whatever other generation    *)
(* requests were in flight when clearHistory ran.                          *)
(***************************************************************************)
FirstAfterClearStored ==
    /\ lastOp'.op = "generateSpeech"
    /\ lastOp'.outcome = "resolved"
    /\ lastOp'.gen.afterClear

C6_ClearThenGenerate ==
    [][FirstAfterClearStored => history' = <<lastOp'.gen.response>>]_vars

\* C6 as amended: ... provided no other generation's result was stored
\* between the clearHistory call and that success.
C6_ClearThenGenerateAlone ==
    [][FirstAfterClearStored /\ log = << >> => history' = <<lastOp'.gen.response>>]_vars

\* the first generation called after a clear was stored alone, results had
\* been stored before the clear and another request is still in flight
C6_Witness ==
    /\ lastOp.op = "generateSpeech" /\ lastOp.outcome = "resolved"
    /\ lastOp.gen.afterClear
    /\ history = <<lastOp.gen.response>>
    /\ lastOp.gen.response.generated_at > 1
    /\ gens # EmptyBag

(***************************************************************************)
(* C7: when deleteVoice(id) fails, voices, selectedVoice, isLoading and    *)
(* error are what they were before the failure was handled, the original   *)
(* error is thrown to the caller and no further request is issued.         *)
(***************************************************************************)
C7_DeleteFails ==
    [][DeliveredNext("deleteVoice", "fail")
         => /\ StoreUnchanged
            /\ lastOp'.outcome = "rejected"
            /\ lastOp'.thrown = lastOp'.call.err
            /\ ops' = ops
            /\ calls' = calls (-) SetToBag({lastOp'.call})]_vars

C7_Witness ==
    /\ Delivered("deleteVoice", "fail")
    /\ lastOp.outcome = "rejected"
    /\ Len(voices) > 0
    /\ error = NULL

(***************************************************************************)
(* C8: when cloneVoice fails, the voice list and the selected voice are    *)
(* unchanged, error holds the normalized message of the failure, isLoading *)
(* is false and the error is thrown to the caller.                         *)
(***************************************************************************)
C8_CloneFails ==
    [][DeliveredNext("cloneVoice", "fail")
         => /\ UNCHANGED <<voices, selectedVoice>>
            /\ error' = handleAPIError(lastOp'.call.err)
            /\ isLoading' = FALSE
            /\ lastOp'.outcome = "rejected"
            /\ lastOp'.thrown = lastOp'.call.err]_vars

C8_Witness ==
    /\ Delivered("cloneVoice", "fail")
    /\ lastOp.outcome = "rejected"
    /\ error = "Internal Server Error"
    /\ ~isLoading
    /\ Len(voices) > 0
    /\ selectedVoice # NoVoice

(***************************************************************************)
(* C9: when fetchVoices fails, the voice list keeps its contents, error    *)
(* holds the normalized message, isLoading is false, an error notification *)
(* is raised and the call resolves without rejecting.                      *)
(***************************************************************************)
C9_FetchFails ==
    [][DeliveredNext("fetchVoices", "fail")
         => /\ voices' = voices
            /\ error' = handleAPIError(lastOp'.call.err)
            /\ isLoading' = FALSE
            /\ lastOp'.toast.kind = "error"
            /\ lastOp'.toast.text[2] = error'
            /\ lastOp'.outcome = "resolved"]_vars

C9_Witness ==
    /\ Delivered("fetchVoices", "fail")
    /\ lastOp.outcome = "resolved"
    /\ lastOp.toast.kind = "error"
    /\ error = "timeout of 60000ms exceeded"
    /\ Len(voices) > 0

(***************************************************************************)
(* C10: whenever a fetchVoices call completes successfully, error is null  *)
(* in the state that results, whatever ran while the fetch was in flight.  *)
(***************************************************************************)
C10_FetchSuccessClearsError ==
    Delivered("fetchVoices", "ok") => error = NULL

(***************************************************************************)
(* C11: when generateSpeech fails, history and currentAudio are what they  *)
(* were before the failure was handled, isGenerating is false afterwards   *)
(* and the error the request failed with is thrown to the caller.          *)
(***************************************************************************)
C11_GenerateFails ==
    [][lastOp'.op = "generateSpeech" /\ lastOp'.outcome = "rejected"
         => /\ history' = history
            /\ currentAudio' = currentAudio
            /\ isGenerating' = FALSE
            /\ lastOp'.thrown \in Failures
            /\ lastOp'.toast.kind = "error"]_vars

\* a generation failed after results had been stored, while another request
\* is still in flight
C11_Witness ==
    /\ lastOp.op = "generateSpeech" /\ lastOp.outcome = "rejected"
    /\ lastOp.thrown = Timeout
    /\ ~isGenerating
    /\ currentAudio # NoAudio
    /\ Len(history) >= 2
    /\ gens # EmptyBag

(***************************************************************************)
(* C12: the status the voice list shows for a voice id only moves from     *)
(* processing or training to ready or to error: from one state of the      *)
(* store to the next, an id shown in both keeps its status or makes one of *)
(* those moves, so a voice shown as ready or error keeps that status.      *)
(***************************************************************************)
C12_StatusOnlyAdvances ==
    [][\A i \in 1 .. Len(voices), j \in 1 .. Len(voices') :
          (voices[i].id = voices'[j].id /\ voices[i].status # voices'[j].status)
             => /\ voices[i].status \in {"processing", "training"}
                /\ voices'[j].status \in {"ready", "error"}]_vars

(***************************************************************************)
(* C13: when deleteVoice(id) succeeds, selectedVoice becomes null if the   *)
(* voice selected at that moment has that id and is unchanged otherwise;   *)
(* and only selectVoice makes a voice the selected one, so the deleted id  *)
(* is not selected afterwards unless it is selected again.                 *)
(***************************************************************************)
C13_DeleteClearsSelection ==
    [][/\ DeliveredNext("deleteVoice", "ok")
            => selectedVoice' = IF selectedVoice.id = lastOp'.call.voiceId
                                THEN NoVoice ELSE selectedVoice
       /\ (selectedVoice' # selectedVoice /\ selectedVoice' # NoVoice)
            => lastOp'.op = "selectVoice"]_vars

\* a delete succeeded while a voice with another id was selected, which the
\* written-back list no longer holds
C13_Witness ==
    /\ Delivered("deleteVoice", "ok")
    /\ selectedVoice # NoVoice
    /\ selectedVoice.id # lastOp.call.voiceId
    /\ selectedVoice.id \notin Ids(voices)

(***************************************************************************)
(* C19: whenever fetchVoices, deleteVoice or cloneVoice fails, error holds *)
(* the normalized message of that failure afterwards and an error          *)
(* notification carrying it is raised.                                     *)
(***************************************************************************)
VoiceOperations == {"fetchVoices", "deleteVoice", "cloneVoice"}

FailureNotified ==
    /\ lastOp'.toast.kind = "error"
    /\ lastOp'.toast.text[2] = handleAPIError(lastOp'.call.err)

C19_FailuresRecorded ==
    [][\A op \in VoiceOperations :
          DeliveredNext(op, "fail")
             => /\ error' = handleAPIError(lastOp'.call.err)
                /\ FailureNotified]_vars

\* C19 as amended: fetchVoices and cloneVoice record the message in error;
\* deleteVoice raises the notification and leaves error as it was.
C19_FailuresRecordedExceptDelete ==
    [][\A op \in VoiceOperations :
          DeliveredNext(op, "fail")
             => /\ FailureNotified
                /\ op # "deleteVoice" => error' = handleAPIError(lastOp'.call.err)
                /\ op = "deleteVoice" => error' = error]_vars

\* a delete failed with a message that error does not hold, after another
\* operation's failure was recorded
C19_Witness ==
    /\ Delivered("deleteVoice", "fail")
    /\ lastOp.toast.text[2] = handleAPIError(lastOp.call.err)
    /\ error # NULL
    /\ error # handleAPIError(lastOp.call.err)

(***************************************************************************)
(* C14: when fetchLanguages fails the language list becomes exactly the    *)
(* six fallback entries de, en, es, fr, it, pt in that order, the call     *)
(* resolves without rejecting and settings is unchanged; when it succeeds  *)
(* the list is replaced by the list the service sent.                      *)
(***************************************************************************)
C14_FetchLanguages ==
    [][/\ DeliveredNext("fetchLanguages", "fail")
            => /\ Len(languages') = 6
               /\ [i \in 1 .. 6 |-> languages'[i].code] = <<"de", "en", "es", "fr", "it", "pt">>
               /\ lastOp'.outcome = "resolved"
               /\ lastOp'.thrown = NoFailure
               /\ settings' = settings
       /\ DeliveredNext("fetchLanguages", "ok")
            => /\ languages' = lastOp'.call.payload
               /\ settings' = settings]_vars

\* a fetch failed and left the fallback list where the service's shorter list
\* had been, with settings that are not the defaults
C14_Witness ==
    /\ Delivered("fetchLanguages", "fail")
    /\ lastOp.outcome = "resolved"
    /\ languages = fallbackLanguages
    /\ settings # defaultSettings
    /\ \E c \in BagToSet(langCalls) : c.phase = "ok" /\ c.payload # fallbackLanguages

(***************************************************************************)
(* C15: for every failure value handleAPIError returns one message string, *)
(* chosen by strict precedence: the response body's detail if present,     *)
(* else the body's message if present, else the error's own message if     *)
(* present, else 'Ein unbekannter Fehler ist aufgetreten'.  A field is     *)
(* present when it holds a non-empty string: a missing, null or empty      *)
(* field is passed over.                                                   *)
(***************************************************************************)
Present(field) == field \notin {Absent, NULL, ""}

C15_Precedence ==
    resMessage # NULL =>
        LET d == argError.detail
            b == argError.bodyMessage
            t == argError.message
        IN /\ Present(resMessage)
           /\ Present(d) => resMessage = d
           /\ (~Present(d) /\ Present(b)) => resMessage = b
           /\ (~Present(d) /\ ~Present(b) /\ Present(t)) => resMessage = t
           /\ (~Present(d) /\ ~Present(b) /\ ~Present(t))
                => resMessage = "Ein unbekannter Fehler ist aufgetreten"

\* the detail was returned for a failure that also carries a body message
\* and a transport message
C15_Witness ==
    /\ lastOp.op = "handleAPIError"
    /\ resMessage = "Voice not found"
    /\ argError.bodyMessage = "Internal Server Error"
    /\ argError.message = "Network Error"

(***************************************************************************)
(* C16: validateAudioFile returns invalid with the file-type reason for    *)
(* every file whose MIME type is outside the five allowed types, invalid   *)
(* with the file-too-large reason for every file whose size exceeds        *)
(* 52428800 bytes, and valid for every other file, a file of exactly       *)
(* 52428800 bytes included.                                                *)
(***************************************************************************)
AllowedTypes == {"audio/wav", "audio/mp3", "audio/mpeg", "audio/ogg", "audio/webm"}

C16_Validate ==
    resValidation # NotValidated =>
        /\ argFile.type \notin AllowedTypes => resValidation = Invalid(OnlyAudioAllowed)
        /\ argFile.size > 52428800 => resValidation = Invalid(FileTooLarge)
        /\ (argFile.type \in AllowedTypes /\ argFile.size <= 52428800) => resValidation = Valid

\* C16 as amended: the file-too-large reason is returned for every file of
\* an allowed type whose size exceeds 52428800 bytes (the type is checked
\* first).
C16_ValidateTypeFirst ==
    resValidation # NotValidated =>
        /\ argFile.type \notin AllowedTypes => resValidation = Invalid(OnlyAudioAllowed)
        /\ (argFile.type \in AllowedTypes /\ argFile.size > 52428800)
             => resValidation = Invalid(FileTooLarge)
        /\ (argFile.type \in AllowedTypes /\ argFile.size <= 52428800) => resValidation = Valid

\* a file of an allowed type and of exactly 52428800 bytes was found valid
C16_Witness ==
    /\ lastOp.op = "validateAudioFile"
    /\ argFile.type = "audio/mpeg"
    /\ argFile.size = 52428800
    /\ resValidation = Valid

(***************************************************************************)
(* C17: every preview object URL created for a staged file is revoked when *)
(* that file leaves the staged list (by removeFile, by the form reset      *)
(* after a successful clone submission, or by the page unmounting): a step *)
(* that takes a file off the list leaves its preview URL revoked.          *)
(***************************************************************************)
Previews(staged) == {staged[i].preview : i \in 1 .. Len(staged)}

C17_PreviewsRevoked ==
    [][\A url \in Previews(audioFiles) :
          url \notin Previews(audioFiles') => url \notin objectUrls']_vars

(***************************************************************************)
(* C18: validation failures never reach the network.  A clone request is   *)
(* issued only when the name is neither empty nor whitespace-only and a    *)
(* file is staged; a generate request is issued only when the text is      *)
(* neither empty nor whitespace-only and a voice is selected; a file that  *)
(* validateAudioFile rejects or that cannot be decoded is never staged and *)
(* is in no clone request.                                                 *)
(***************************************************************************)
Whitespace(str) == str \in {"", " "}

Acceptable(f) ==
    /\ f.type \in AllowedTypes
    /\ f.size <= 52428800
    /\ f.decodable

CloneRequestIssued ==
    /\ ops' = ops + 1
    /\ \E c \in BagToSet(calls') : c.op = "cloneVoice" /\ CopiesIn(c, calls') > CopiesIn(c, calls)

GenerateRequestIssued == BagCardinality(gens') > BagCardinality(gens)

C18_ValidationBeforeNetwork ==
    [][/\ CloneRequestIssued => ~Whitespace(voiceName) /\ Len(audioFiles) > 0
       /\ GenerateRequestIssued => ~Whitespace(text) /\ selectedVoice # NoVoice
       /\ (lastOp'.op \in {"handleSubmit", "handleGenerate"} /\ lastOp'.outcome = "returned")
            => UNCHANGED <<calls, ops, gens>>
       /\ \A i \in 1 .. Len(audioFiles') : Acceptable(audioFiles'[i].file)
       /\ \A c \in BagToSet(calls') :
             \A i \in 1 .. Len(c.request.files) : Acceptable(c.request.files[i])]_vars

\* the form was submitted with a whitespace-only name while a file was
\* staged, after a drop from which a file had been rejected: no request
C18_Witness ==
    /\ lastOp.op = "handleSubmit" /\ lastOp.outcome = "returned"
    /\ voiceName = " "
    /\ Len(audioFiles) = 1
    /\ nextFile = 3
    /\ calls = EmptyBag /\ ops = 0

(***************************************************************************)
(* C20: within every store operation that awaits a gateway call            *)
(* (fetchVoices, deleteVoice, cloneVoice, generateSpeech, fetchLanguages)  *)
(* no store state is changed before the awaited call resolves, and exactly *)
(* one of the two paths (success or failure) runs for that call, never     *)
(* both and never neither: a call leaves the calls in flight only by being *)
(* delivered, once, to the path that matches its outcome.                  *)
(***************************************************************************)
StoreState == <<voices, selectedVoice, isLoading, error,
                isGenerating, currentAudio, history, settings, languages>>

Awaiting == BagCardinality(calls) + BagCardinality(gens) + BagCardinality(langCalls)

Started == lastOp'.outcome = "pending"

Continued == lastOp'.outcome \in {"resolved", "rejected"}

\* the continuation that ran is the one its call's outcome asks for, and the
\* call it ran for was in flight and is in flight no longer
OnePathRan ==
    /\ Awaiting' = Awaiting - 1
    /\ IF lastOp'.op = "generateSpeech"
       THEN /\ CopiesIn(lastOp'.gen, gens') = CopiesIn(lastOp'.gen, gens) - 1
            /\ lastOp'.gen.phase = "ok" <=> lastOp'.thrown = NoFailure
       ELSE /\ lastOp'.call.phase \in {"ok", "fail"}
            /\ lastOp'.call.op = lastOp'.op
            /\ CopiesIn(lastOp'.call, calls (+) langCalls)
                 = CopiesIn(lastOp'.call, calls' (+) langCalls') + 1
            /\ lastOp'.call.phase = "fail" <=> lastOp'.call.err # NoFailure
            /\ lastOp'.call.phase = "fail"
                 => \/ lastOp'.toast.kind = "error"
                    \/ lastOp'.op = "fetchLanguages" /\ languages' = fallbackLanguages
            /\ lastOp'.call.phase = "ok" => lastOp'.toast.kind # "error"

SettledOnlyByOnePath ==
    /\ Continued => OnePathRan
    /\ ~Continued => Awaiting' >= Awaiting /\ (~Started => UNCHANGED StoreState)

C20_NoChangeBeforeResolve ==
    [][/\ Started => UNCHANGED StoreState
       /\ SettledOnlyByOnePath]_vars

\* C20 as amended: before its awaited call resolves an operation changes no
\* store state other than its own in-progress marking: fetchVoices and
\* cloneVoice set isLoading to true and error to null, generateSpeech sets
\* isGenerating to true, deleteVoice and fetchLanguages change nothing.
C20_OnlyMarkingBeforeResolve ==
    [][/\ Started =>
            /\ UNCHANGED <<voices, selectedVoice, currentAudio, history, settings, languages>>
            /\ lastOp'.op \in {"fetchVoices", "cloneVoice"}
                 => isLoading' /\ error' = NULL /\ UNCHANGED isGenerating
            /\ lastOp'.op = "generateSpeech"
                 => isGenerating' /\ UNCHANGED <<isLoading, error>>
            /\ lastOp'.op \in {"deleteVoice", "fetchLanguages"} => UNCHANGED StoreState
       /\ SettledOnlyByOnePath]_vars

\* a cloneVoice call failed and its catch block ran while a fetchLanguages
\* call, already answered, awaits its continuation
C20_Witness ==
    /\ Delivered("cloneVoice", "fail")
    /\ error # NULL
    /\ \E c \in BagToSet(langCalls) : c.phase = "ok"

(***************************************************************************)
(* C21: the history is ordered most recent first: of any two entries the   *)
(* one nearer the front is the result the service generated later (by its  *)
(* generated_at), also when generateSpeech calls overlap and are answered  *)
(* in another order than they were generated.                              *)
(***************************************************************************)
C21_HistoryNewestFirst ==
    \A i, j \in 1 .. Len(history) :
        i < j => history[i].generated_at > history[j].generated_at

NewestFirst(h) ==
    \A i, j \in 1 .. Len(h) : i < j => h[i].generated_at > h[j].generated_at

ResultStored == lastOp'.op = "generateSpeech" /\ lastOp'.outcome = "resolved"

\* C21 as amended: the history is ordered most recently stored first: a
\* result is put in front of the results stored before it, which keep their
\* order; the order is that of generated_at as long as no response is
\* delivered after a response that was generated later.
C21_NewestStoredFirst ==
    [][/\ ResultStored
            => /\ history'[1] = lastOp'.gen.response
               /\ \A i \in 2 .. Len(history') : history'[i] = history[i - 1]
       /\ (/\ NewestFirst(history)
           /\ ResultStored
                => \A i \in 1 .. Len(history) :
                      history[i].generated_at < lastOp'.gen.response.generated_at)
            => NewestFirst(history')]_vars

\* two overlapping calls were answered and delivered in the order they were
\* generated: the history holds both results, the later one first
C21_Witness ==
    /\ lastOp.op = "generateSpeech" /\ lastOp.outcome = "resolved"
    /\ overlaps > 0
    /\ Len(history) >= 2
    /\ NewestFirst(history)
    /\ history[1] = lastOp.gen.response
    /\ gens # EmptyBag

(***************************************************************************)
(* C22: updateSettings(partial) changes exactly the fields named in the    *)
(* partial to the given values and leaves every other settings field and   *)
(* the language list unchanged; applying the same partial twice gives the  *)
(* same settings as applying it once.                                      *)
(***************************************************************************)
C22_UpdateSettings ==
    [][lastOp'.op = "updateSettings"
         => LET p == lastOp'.partial
            IN /\ DOMAIN settings' = DOMAIN settings
               /\ \A k \in DOMAIN p : settings'[k] = p[k]
               /\ \A k \in DOMAIN settings \ DOMAIN p : settings'[k] = settings[k]
               /\ languages' = languages
               /\ (lastOp.op = "updateSettings" /\ DOMAIN lastOp.partial = DOMAIN p
                     /\ \A k \in DOMAIN p : lastOp.partial[k] = p[k])
                    => settings' = settings]_vars

\* temperature and speed were set in one call, after the language had been
\* changed and a language list had been loaded
C22_Witness ==
    /\ lastOp.op = "updateSettings"
    /\ DOMAIN lastOp.partial = {"temperature", "speed"}
    /\ settings = [temperature |-> 10, speed |-> 5, language |-> "en"]
    /\ languages # << >>

(***************************************************************************)
(* C23: in every reachable state of the settings store temperature lies in *)
(* [0.1, 1.0] and speed in [0.5, 2.0] (in tenths: 1..10 and 5..20), after  *)
(* any sequence of updateSettings calls and reloads from the persisted     *)
(* settings.                                                               *)
(***************************************************************************)
C23_SettingsBounded ==
    /\ settings.temperature >= 1 /\ settings.temperature <= 10
    /\ settings.speed >= 5 /\ settings.speed <= 20

\* both values were moved to an end of their range and came back from the
\* persisted settings on a reload
C23_Witness ==
    /\ lastOp.op = "reload"
    /\ settings.temperature = 1
    /\ settings.speed = 20
    /\ persistedSettings = settings

(***************************************************************************)
(* C24: driven through the TTS page, at most one generation request is in  *)
(* flight at a time: the generate control is disabled while isGenerating   *)
(* is true, so a second generateSpeech call cannot start until the first   *)
(* has resolved and cleared the flag.                                      *)
(***************************************************************************)
C24_OneGenerationInFlight ==
    /\ BagCardinality(gens) <= 1
    /\ gens # EmptyBag => isGenerating
    /\ overlaps = 0

\* a second generation was started from the page after the first one had
\* been stored
C24_Witness ==
    /\ lastOp.op = "generateSpeech" /\ lastOp.outcome = "pending"
    /\ BagCardinality(gens) = 1
    /\ isGenerating
    /\ Len(history) = 1
    /\ route = "tts"

(***************************************************************************)
(* C25: provided every gateway call eventually settles (success, failure   *)
(* or the 60-second timeout), every state in which isLoading or            *)
(* isGenerating is true is eventually followed by a state in which that    *)
(* flag is false: no success or failure path of fetchVoices, cloneVoice or *)
(* generateSpeech leaves a flag stuck at true.                             *)
(***************************************************************************)
C25_FlagsCleared ==
    /\ isLoading ~> ~isLoading
    /\ isGenerating ~> ~isGenerating

\* a fetchVoices call ran into the timeout and its catch block cleared
\* isLoading while a generation is still in flight
C25_Witness ==
    /\ Delivered("fetchVoices", "fail")
    /\ lastOp.call.err = Timeout
    /\ ~isLoading
    /\ isGenerating
    /\ gens # EmptyBag

(***************************************************************************)
(* C26: the number of staged intake files on the voice-clone page never    *)
(* exceeds the configured maximum of 10, after any sequence of drops and   *)
(* removals, so a clone request never carries more than 10 files.          *)
(***************************************************************************)
C26_StagedAtMostTen ==
    /\ Len(audioFiles) <= 10
    /\ \A c \in InFlight : Len(c.request.files) <= 10

(***************************************************************************)
(* C27: in every reachable state of the generation store, if currentAudio  *)
(* is not null then history is non-empty and its first entry is that same  *)
(* result (after a successful generation, after clearHistory, after        *)
(* overlapping generations and after a reload).                            *)
(***************************************************************************)
C27_CurrentAudioHeadsHistory ==
    currentAudio # NoAudio => (Len(history) >= 1 /\ history[1] = currentAudio)

\* of two overlapping generations the one generated first was delivered
\* last: it is the current audio and the first entry of the history
C27_Witness ==
    /\ currentAudio # NoAudio
    /\ Len(history) >= 2
    /\ history[1] = currentAudio
    /\ currentAudio.generated_at < history[2].generated_at

(***************************************************************************)
(* C28: in every reachable state of the voice store no two entries of the  *)
(* voice list have the same id, for every interleaving of fetchVoices,     *)
(* cloneVoice and deleteVoice against a service that gives every cloned    *)
(* voice an id of its own.                                                 *)
(***************************************************************************)
C28_NoDuplicateIds ==
    \A i, j \in 1 .. Len(voices) : i # j => voices[i].id # voices[j].id

(***************************************************************************)
(* C29: in every reachable state of the voice store, when selectedVoice is *)
(* not null its id is the id of some entry of the current voice list,      *)
(* after any sequence of selectVoice (with a voice taken from the list),   *)
(* fetchVoices, cloneVoice and deleteVoice.                                *)
(***************************************************************************)
C29_SelectedVoiceListed ==
    selectedVoice # NoVoice => selectedVoice.id \in Ids(voices)

(***************************************************************************)
(* C30: isLoading is true in every state in which a fetchVoices or         *)
(* cloneVoice request is still in flight, also when a fetch and a clone    *)
(* overlap; hence the clone-submit control, which isLoading disables, can  *)
(* never start a second clone request while one is in flight.              *)
(***************************************************************************)
LoadingCalls == {c \in InFlight : c.op \in {"fetchVoices", "cloneVoice"}}

ClonesInFlight ==
    BagCardinality([c \in {d \in InFlight : d.op = "cloneVoice"} |-> calls[c]])

C30_LoadingWhileInFlight ==
    /\ LoadingCalls # {} => isLoading
    /\ ClonesInFlight <= 1

====
